---- MODULE Spec2Model ----
(***************************************************************************)
(* Model of zaza/openstack/charm_tests/policyd/tests.py: the policy        *)
(* override test cases (PolicydTest, KeystonePolicydTest) driving a        *)
(* deployed application through zaza.model, and the bundle builder         *)
(* _make_zip_file_from.                                                    *)
(*                                                                         *)
(* Text the code inspects (status lines, paths, file contents) is a        *)
(* sequence of one-character strings, so that prefix tests, path joins and *)
(* encodings are computed and not assumed.                                 *)
(***************************************************************************)
EXTENDS Naturals, Sequences, FiniteSets, TLC

\* ----------------------------------------------------------------- bounds
\* Largest number of units (and keystone addresses) of the application.
MaxUnits == 2
\* Largest number of entries of a bundle handed to the bundle builder.
MaxFiles == 2
\* Longest content of a bundle entry handed to the bundle builder.
MaxLen == 2

VARIABLES
    test,                 \* the test method being run
    pc,                   \* index of the next statement of the test method
    outcome,              \* "running", "passed" or "failed"
    error,                \* the exception that ended the test, or "none"
    ipi,                  \* position of the for-loop over self.keystone_ips
    zip_path,             \* local: the path _make_zip_file_from returned
    log,                  \* every call the test has issued, in order
    nunits,               \* number of units of the application
    tls_rid,              \* self.tls_rid: keystone is related to a CA
    config,               \* application configuration last written
    resource,             \* path last attached as resource policyd-override
    tmp_files,            \* files under cls._tmp_dir: path -> archive
    status,               \* workload status info line of the application
    files,                \* per unit: the policy.d file the test looks at
    busy,                 \* units that are currently executing hooks
    zin,                  \* bundle builder alone: arguments of the call
    zout,                 \* bundle builder alone: its return value
    materialized,         \* history: since the enabling write of test_002
                          \* the watched file was on some unit
    cls_in,               \* class run: what setUpClass and the runner find
    cls_pc,               \* class run: the line about to run
    cls_tmp_dir,          \* class run: cls._tmp_dir on disk
    cls_ran,              \* class run: the test methods run, with outcomes
    cls_error,            \* class run: exception that left a class fixture
    polled,               \* status poll alone: what the predicates returned
    ovn_pc,               \* initialize_vault: the line about to run
    ovn_config,           \* initialize_vault: the test_config dict
    ovn_log,              \* initialize_vault: the calls made, in order
    ovn_error             \* initialize_vault: the exception it raised

orch_vars == <<test, pc, outcome, error, ipi, zip_path, log>>
fixed_vars == <<nunits, tls_rid>>
target_vars == <<config, resource, tmp_files, status, files, busy>>
zip_vars == <<zin, zout>>
hist_vars == <<materialized>>
main_vars == <<orch_vars, fixed_vars, target_vars, zip_vars, hist_vars>>
class_vars == <<cls_in, cls_pc, cls_tmp_dir, cls_ran, cls_error>>
poll_vars == <<polled>>
ovn_vars == <<ovn_pc, ovn_config, ovn_log, ovn_error>>
side_vars == <<class_vars, poll_vars, ovn_vars>>
vars == <<main_vars, side_vars>>

\* ------------------------------------------------------------------- text
StartsWith(s, prefix) ==
    /\ Len(s) >= Len(prefix)
    /\ SubSeq(s, 1, Len(prefix)) = prefix

\* Python's "needle in haystack" on str.
Contains(haystack, needle) ==
    \E i \in 0..Len(haystack) :
        /\ i + Len(needle) <= Len(haystack)
        /\ SubSeq(haystack, i + 1, i + Len(needle)) = needle

\* os.path.join(a, b) on POSIX: an absolute b discards a; otherwise b is
\* appended after exactly one separator.
os_path_join(a, b) ==
    IF StartsWith(b, <<"/">>) THEN b
    ELSE IF a = <<>> \/ a[Len(a)] = "/" THEN a \o b
    ELSE a \o <<"/">> \o b

\* Code points of the characters that occur in bundles.
OrdTable ==
    << <<"!", 33>>, <<" ", 32>>, <<"'", 39>>, <<".", 46>>, <<"1", 49>>,
       <<"2", 50>>, <<":", 58>>, <<"_", 95>>, <<"a", 97>>, <<"c", 99>>,
       <<"d", 100>>, <<"e", 101>>, <<"f", 102>>, <<"i", 105>>, <<"l", 108>>,
       <<"m", 109>>, <<"n", 110>>, <<"r", 114>>, <<"s", 115>>, <<"t", 116>>,
       <<"u", 117>>, <<"v", 118>>, <<"y", 121>>, <<"{", 123>>, <<"}", 125>>,
       <<"U+00E9", 233>>, <<"U+20AC", 8364>> >>

Ord(c) == OrdTable[CHOOSE i \in 1..Len(OrdTable) : OrdTable[i][1] = c][2]

\* str.encode("utf-8") of one character.
utf8_char(c) ==
    LET n == Ord(c) IN
    IF n < 128 THEN <<n>>
    ELSE IF n < 2048 THEN <<192 + (n \div 64), 128 + (n % 64)>>
    ELSE <<224 + (n \div 4096), 128 + ((n \div 64) % 64), 128 + (n % 64)>>

RECURSIVE utf8_encode(_)
utf8_encode(s) ==
    IF s = <<>> THEN <<>> ELSE utf8_char(Head(s)) \o utf8_encode(Tail(s))

\* ------------------------------------------------------- bundle builder
\* cls._tmp_dir, the directory tempfile.mkdtemp() made in setUpClass.
_tmp_dir == <<"/", "t", "m", "p", "/", "t", "m", "p", "d">>

good_zip == <<"g", "o", "o", "d", ".", "z", "i", "p">>
\* test_002 naming its archive as test_001 does.
bad_zip_named_as_good == <<"g", "o", "o", "d", ".", "z", "i", "p">>

bad_zip == <<"b", "a", "d", ".", "z", "i", "p">>
rules_zip == <<"r", "u", "l", "e", "s", ".", "z", "i", "p">>

file1_yaml == <<"f", "i", "l", "e", "1", ".", "y", "a", "m", "l">>
file2_yaml == <<"f", "i", "l", "e", "2", ".", "y", "a", "m", "l">>
rule_yaml == <<"r", "u", "l", "e", ".", "y", "a", "m", "l">>

\* A dict of name: string is a sequence of <<name, contents>> pairs with
\* pairwise different names: a dict iterates in insertion order.
good == << <<file1_yaml,
             <<"{", "'", "r", "u", "l", "e", "1", "'", ":", " ",
               "'", "!", "'", "}">> >> >>
bad == << <<file2_yaml,
            <<"{", "'", "r", "u", "l", "e", "'", ":", " ", "'", "!", "}">> >> >>
rules == << <<rule_yaml,
              <<"{", "'", "i", "d", "e", "n", "t", "i", "t", "y", ":",
                "l", "i", "s", "t", "_", "s", "e", "r", "v", "i", "c", "e", "s",
                "'", ":", " ", "'", "!", "'", "}">> >> >>

\* zfp.writestr(name, contents): one more entry, the text encoded as UTF-8.
writestr(archive, name, contents) ==
    Append(archive, [filename |-> name, data |-> utf8_encode(contents)])

\* The for loop of _make_zip_file_from over files.items(): the archive after
\* it, and the value the loop leaves in the variable `name`.
RECURSIVE zip_loop(_, _, _)
zip_loop(archive, name, items) ==
    IF items = <<>> THEN [archive |-> archive, name |-> name]
    ELSE zip_loop(writestr(archive, items[1][1], items[1][2]),
                  items[1][1], Tail(items))

\* The same call with the path joined from `name` after the loop has rebound
\* it to the last entry's name.
make_zip_path_after_loop(name, items) ==
    LET after == zip_loop(<<>>, name, items)
        path == os_path_join(_tmp_dir, after.name)
    IN  [path |-> path, archive |-> after.archive]

\* _make_zip_file_from(name, files): the path is joined before the loop
\* rebinds `name`; ZipFile(path, "w") truncates, the loop fills the archive.
_make_zip_file_from(name, items) ==
    LET path == os_path_join(_tmp_dir, name)
        after == zip_loop(<<>>, name, items)
    IN  [path |-> path, archive |-> after.archive]

\* ------------------------------------------------------ the target system
Units == 1..nunits

\* self.keystone_ips: one address per unit, in unit order.
keystone_ips == [i \in 1..nunits |-> i]

\* cls.test_config['tests_options']['policyd']['service']
_service_name == <<"k", "e", "y", "s", "t", "o", "n", "e">>

override_key == "use-policyd-override"
api_version_key == "preferred-api-version"
ConfigKeys == {override_key, api_version_key}

\* The prefixes the test cases wait for in the workload status info line.
PO == <<"P", "O", ":">>
PO_broken == <<"P", "O", " ", "(", "b", "r", "o", "k", "e", "n", ")", ":">>

unit_ready == <<"r", "e", "a", "d", "y">>

\* Info lines the charm may show: override active, override broken, none.
StatusLines ==
    { PO \o <<" ">> \o unit_ready,
      PO_broken \o <<" ">> \o unit_ready,
      unit_ready,
      <<>> }

\* The argument "rule1: '!'" of block_until_file_has_contents.
rule1_contents == <<"r", "u", "l", "e", "1", ":", " ", "'", "!", "'">>

NotFound == [exists |-> FALSE, contents |-> <<>>]
Present(text) == [exists |-> TRUE, contents |-> text]

\* What a unit may hold at the path a test case looks at: nothing, the
\* rendered rule (a YAML document ends with a line break), or other text.
FileStates ==
    { NotFound,
      Present(rule1_contents \o <<"\n">>),
      Present(<<"s", "t", "a", "l", "e">>) }

\* zaza.model.set_application_config(app, d): the keys of d are overwritten.
set_application_config(cfg, d) ==
    [k \in ConfigKeys |->
        IF \E i \in 1..Len(d) : d[i][1] = k
        THEN d[CHOOSE i \in 1..Len(d) : d[i][1] = k][2]
        ELSE cfg[k]]

\* A poll that skips the units on which the file cannot be read.
file_has_contents_skip_unreadable(expected) ==
    \A u \in Units : files[u].exists => Contains(files[u].contents, expected)

\* The predicate block_until_file_has_contents polls: on every unit the file
\* can be read and holds the expected text.
file_has_contents(expected) ==
    \A u \in Units : files[u].exists /\ Contains(files[u].contents, expected)

\* A poll that is content with the first unit that lacks the file.
file_missing_on_some_unit ==
    \E u \in Units : ~files[u].exists

\* The predicate block_until_file_missing polls: the file is on no unit.
file_missing ==
    \A u \in Units : ~files[u].exists

\* A poll that drops the negate_match argument.
wl_status_info_ignoring_negate(prefix, negate_match) ==
    StartsWith(status, prefix)

\* The predicate block_until_wl_status_info_starts_with polls.
wl_status_info_starts_with(prefix, negate_match) ==
    IF negate_match THEN ~StartsWith(status, prefix)
    ELSE StartsWith(status, prefix)

\* The predicate block_until_all_units_idle polls.
all_units_idle == busy = {}

\* ------------------------------------------------- the test methods' code
\* One statement of a test method that calls out of it.
Step(line, op) ==
    [line |-> line, op |-> op, name |-> <<>>, items |-> <<>>, cfg |-> <<>>,
     prefix |-> <<>>, neg |-> FALSE, path |-> <<>>, contents |-> <<>>,
     phase |-> 0]

make_zip_file(line, name, items) ==
    [Step(line, "_make_zip_file_from") EXCEPT !.name = name, !.items = items]

attach_resource(line) == Step(line, "attach_resource")

write_config(line, d) == [Step(line, "set_application_config") EXCEPT !.cfg = d]

block_until_all_units_idle(line) == Step(line, "block_until_all_units_idle")

block_until_wl_status_info_starts_with(line, prefix, negate_match) ==
    [Step(line, "block_until_wl_status_info_starts_with")
        EXCEPT !.prefix = prefix, !.neg = negate_match]

block_until_file_has_contents(line, path, contents) ==
    [Step(line, "block_until_file_has_contents")
        EXCEPT !.path = path, !.contents = contents]

block_until_file_missing(line, path) ==
    [Step(line, "block_until_file_missing") EXCEPT !.path = path]

for_ip_in_keystone_ips(line, phase) ==
    [Step(line, "for ip in keystone_ips") EXCEPT !.phase = phase]

\* self.default_api_version of the keystone base test class.
default_api_version == "3"

\* _set_config(state): the dict it hands to set_application_config.
_set_config(state) ==
    << <<override_key, IF state THEN "True" ELSE "False">> >>

\* os.path.join("/etc", self._service_name, "policy.d", entry)
policy_d_path(entry) ==
    os_path_join(
        os_path_join(os_path_join(<<"/", "e", "t", "c">>, _service_name),
                     <<"p", "o", "l", "i", "c", "y", ".", "d">>),
        entry)

_set_policy_with(rules_dict) ==
    << make_zip_file(122, rules_zip, rules_dict),
       attach_resource(123),
       write_config(126, _set_config(TRUE)),
       block_until_wl_status_info_starts_with(127, PO, TRUE) >>

\* test_001 going on to disable the override without waiting for "PO:".
test_001_without_PO_await ==
    << make_zip_file(135, good_zip, good),
       attach_resource(137),
       block_until_all_units_idle(140),
       write_config(142, _set_config(TRUE)),
       block_until_file_has_contents(147, policy_d_path(file1_yaml),
                                     rule1_contents),
       write_config(158, _set_config(FALSE)),
       block_until_wl_status_info_starts_with(165, PO, TRUE),
       block_until_all_units_idle(167),
       block_until_wl_status_info_starts_with(168, PO, TRUE),
       block_until_file_missing(173, policy_d_path(file1_yaml)) >>

\* test_001 awaiting the status line before the file contents.
test_001_status_before_contents ==
    << make_zip_file(135, good_zip, good),
       attach_resource(137),
       block_until_all_units_idle(140),
       write_config(142, _set_config(TRUE)),
       block_until_wl_status_info_starts_with(152, PO, FALSE),
       block_until_file_has_contents(147, policy_d_path(file1_yaml),
                                     rule1_contents),
       write_config(158, _set_config(FALSE)),
       block_until_wl_status_info_starts_with(165, PO, TRUE),
       block_until_all_units_idle(167),
       block_until_wl_status_info_starts_with(168, PO, TRUE),
       block_until_file_missing(173, policy_d_path(file1_yaml)) >>

\* test_001 with a single status check after the disable.
test_001_single_check ==
    << make_zip_file(135, good_zip, good),
       attach_resource(137),
       block_until_all_units_idle(140),
       write_config(142, _set_config(TRUE)),
       block_until_file_has_contents(147, policy_d_path(file1_yaml),
                                     rule1_contents),
       block_until_wl_status_info_starts_with(152, PO, FALSE),
       write_config(158, _set_config(FALSE)),
       block_until_wl_status_info_starts_with(165, PO, TRUE),
       block_until_file_missing(173, policy_d_path(file1_yaml)) >>

test_001_policyd_good_yaml ==
    << make_zip_file(135, good_zip, good),
       attach_resource(137),
       block_until_all_units_idle(140),
       write_config(142, _set_config(TRUE)),
       block_until_file_has_contents(147, policy_d_path(file1_yaml),
                                     rule1_contents),
       block_until_wl_status_info_starts_with(152, PO, FALSE),
       write_config(158, _set_config(FALSE)),
       block_until_wl_status_info_starts_with(165, PO, TRUE),
       block_until_all_units_idle(167),
       block_until_wl_status_info_starts_with(168, PO, TRUE),
       block_until_file_missing(173, policy_d_path(file1_yaml)) >>

\* test_002 ending with the override switched off, as test_001 does.
test_002_disables_at_end ==
    << make_zip_file(182, bad_zip, bad),
       attach_resource(184),
       block_until_all_units_idle(187),
       write_config(189, _set_config(TRUE)),
       block_until_wl_status_info_starts_with(194, PO_broken, FALSE),
       block_until_all_units_idle(197),
       block_until_file_missing(202, policy_d_path(file2_yaml)),
       write_config(203, _set_config(FALSE)),
       block_until_all_units_idle(204) >>

\* test_002 checking for the file before the status line.
test_002_file_check_first ==
    << make_zip_file(182, bad_zip, bad),
       attach_resource(184),
       block_until_all_units_idle(187),
       write_config(189, _set_config(TRUE)),
       block_until_file_missing(202, policy_d_path(file2_yaml)),
       block_until_wl_status_info_starts_with(194, PO_broken, FALSE),
       block_until_all_units_idle(197),
       write_config(203, _set_config(TRUE)),
       block_until_all_units_idle(204) >>

test_002_policyd_bad_yaml ==
    << make_zip_file(182, bad_zip, bad),
       attach_resource(184),
       block_until_all_units_idle(187),
       write_config(189, _set_config(TRUE)),
       block_until_wl_status_info_starts_with(194, PO_broken, FALSE),
       block_until_all_units_idle(197),
       block_until_file_missing(202, policy_d_path(file2_yaml)),
       write_config(203, _set_config(TRUE)),
       block_until_all_units_idle(204) >>

\* with self.config_change(default_config, alternate_config, ...): body.
\* The context manager writes the alternate configuration and waits for the
\* units to settle, runs the body, then writes the default configuration
\* back and waits again.  An exception in the body leaves the with
\* statement at once: nothing is written back.
config_change(line, default_config, alternate_config, body) ==
    << write_config(line, alternate_config),
       block_until_all_units_idle(line) >>
    \o body
    \o << write_config(line, default_config),
          block_until_all_units_idle(line) >>

test_disable_service ==
    _set_policy_with(rules)
    \o config_change(225,
           << <<api_version_key, default_api_version>>,
              <<override_key, "False">> >>,
           << <<api_version_key, "3">>, <<override_key, "True">> >>,
           << block_until_all_units_idle(231),
              for_ip_in_keystone_ips(232, 1) >>)
    \o config_change(266,
           << <<api_version_key, default_api_version>> >>,
           << <<api_version_key, "3">> >>,
           << block_until_all_units_idle(270),
              for_ip_in_keystone_ips(271, 2) >>)

Tests ==
    {"test_001_policyd_good_yaml", "test_002_policyd_bad_yaml",
     "test_disable_service"}

Program ==
    CASE test = "test_001_policyd_good_yaml" -> test_001_policyd_good_yaml
      [] test = "test_002_policyd_bad_yaml" -> test_002_policyd_bad_yaml
      [] OTHER -> test_disable_service

\* --------------------------------------------------------- running a test
Running == outcome = "running" /\ pc <= Len(Program)

Cur == Program[pc]

\* The record of one call: the statement, where it stands in the method,
\* how it ended, and the override configuration in force when it was made.
Event(res) ==
    [at |-> pc, step |-> Cur, res |-> res, ip |-> 0,
     exc |-> "none", call |-> "", url |-> <<>>, target |-> <<>>,
     override |-> config[override_key]]

\* A test method that calls the same await again after a timeout.
await_timed_out_retry ==
    UNCHANGED <<outcome, error, pc>>

\* An await that times out raises; no test method catches it.
await_timed_out ==
    /\ outcome' = "failed"
    /\ error' = "Timeout"
    /\ UNCHANGED pc

\* test_002 is between its enabling write (line 189) and its end.
Watching ==
    /\ test = "test_002_policyd_bad_yaml"
    /\ outcome = "running"
    /\ \E i \in 1..Len(log) : log[i].step.op = "set_application_config"

\* Lines 115-119, called from lines 122, 135 and 182.
MakeZipFile ==
    /\ Running
    /\ Cur.op = "_make_zip_file_from"
    /\ LET r == _make_zip_file_from(Cur.name, Cur.items) IN
        /\ tmp_files' =
               [p \in DOMAIN tmp_files \cup {r.path} |->
                   IF p = r.path THEN r.archive ELSE tmp_files[p]]
        /\ zip_path' = r.path
        /\ log' = Append(log, [Event("ok") EXCEPT !.target = r.path])
    /\ pc' = pc + 1
    /\ UNCHANGED <<test, outcome, error, ipi>>
    /\ UNCHANGED <<fixed_vars, zip_vars, side_vars, hist_vars, config,
                   resource, status, files, busy>>

\* zaza_model.attach_resource(self.application_name, 'policyd-override', path)
AttachResource ==
    /\ Running
    /\ Cur.op = "attach_resource"
    /\ resource' = zip_path
    /\ log' = Append(log, [Event("ok") EXCEPT !.target = zip_path])
    /\ pc' = pc + 1
    /\ UNCHANGED <<test, outcome, error, ipi, zip_path>>
    /\ UNCHANGED <<fixed_vars, zip_vars, side_vars, hist_vars, config,
                   tmp_files, status, files, busy>>

\* zaza_model.set_application_config(application_name, config)
SetApplicationConfig ==
    /\ Running
    /\ Cur.op = "set_application_config"
    /\ config' = set_application_config(config, Cur.cfg)
    /\ log' = Append(log, Event("ok"))
    /\ pc' = pc + 1
    /\ materialized' =
           IF test = "test_002_policyd_bad_yaml" /\ ~Watching
               THEN \E u \in Units : files[u].exists
           ELSE materialized
    /\ UNCHANGED <<test, outcome, error, ipi, zip_path>>
    /\ UNCHANGED <<fixed_vars, zip_vars, side_vars, resource, tmp_files,
                   status, files, busy>>

\* An await without a timeout: it returns only when its predicate holds.
Await_without_timeout(holds) ==
    /\ Running
    /\ holds
    /\ log' = Append(log, Event("ok"))
    /\ pc' = pc + 1
    /\ UNCHANGED <<outcome, error>>
    /\ UNCHANGED <<test, ipi, zip_path>>
    /\ UNCHANGED <<fixed_vars, zip_vars, side_vars, hist_vars, target_vars>>

\* A blocking await returns when its predicate holds and raises when it has
\* not held for the length of its timeout.
Await(holds) ==
    /\ Running
    /\ \/ /\ holds
          /\ log' = Append(log, Event("ok"))
          /\ pc' = pc + 1
          /\ UNCHANGED <<outcome, error>>
       \/ /\ ~holds
          /\ log' = Append(log, Event("timeout"))
          /\ await_timed_out
    /\ UNCHANGED <<test, ipi, zip_path>>
    /\ UNCHANGED <<fixed_vars, zip_vars, side_vars, hist_vars, target_vars>>

BlockUntilAllUnitsIdle ==
    /\ Running
    /\ Cur.op = "block_until_all_units_idle"
    /\ Await(all_units_idle)

BlockUntilWlStatusInfoStartsWith ==
    /\ Running
    /\ Cur.op = "block_until_wl_status_info_starts_with"
    /\ Await(wl_status_info_starts_with(Cur.prefix, Cur.neg))

BlockUntilFileHasContents ==
    /\ Running
    /\ Cur.op = "block_until_file_has_contents"
    /\ Await(file_has_contents(Cur.contents))

BlockUntilFileMissing ==
    /\ Running
    /\ Cur.op = "block_until_file_missing"
    /\ Await(file_missing)

\* ------------------------------------------------- the verification probe
\* The calls of one probe, in order (lines 249-254 and 288-293).
ProbeCalls ==
    {"get_keystone_session", "get_keystone_session_client", "services.list"}

\* What a call of the probe may raise: the 403 response, or another failure.
Raisable == {"Forbidden", "ConnectFailure"}

\* openrc['OS_AUTH_URL'] with the replacement of lines 243-247.
OS_AUTH_URL(ip) ==
    [scheme |-> IF tls_rid THEN "https" ELSE "http", host |-> ip]

\* An except clause that catches every exception.
except_Exception(exc) == exc # "none"

\* except keystoneauth1.exceptions.http.Forbidden
except_Forbidden(exc) == exc = "Forbidden"

\* Lines 233-262: the exception that leaves the try statement ("none": the
\* loop goes on) when the calls raised exc.  A normal return raises
\* PolicydError inside the try block.
probe_expecting_denied(exc) ==
    LET in_try == IF exc = "none" THEN "PolicydError" ELSE exc
    IN  IF except_Forbidden(in_try) THEN "none" ELSE in_try

\* The second loop logging a Forbidden response and going on.
probe_expecting_allowed_lenient(exc) ==
    IF exc = "none" \/ except_Forbidden(exc) THEN "none" ELSE exc

\* Lines 272-301: a normal return goes on; Forbidden raises PolicydError
\* from the except clause.
probe_expecting_allowed(exc) ==
    IF exc = "none" THEN "none"
    ELSE IF except_Forbidden(exc) THEN "PolicydError"
    ELSE exc

\* The outcome of a probe as the try statement tells them apart.
probe_outcome(exc) ==
    IF exc = "none" THEN "ALLOWED"
    ELSE IF except_Forbidden(exc) THEN "DENIED"
    ELSE "ERROR"

\* One iteration of "for ip in self.keystone_ips".
Probe ==
    /\ Running
    /\ Cur.op = "for ip in keystone_ips"
    /\ ipi <= Len(keystone_ips)
    /\ \E exc \in Raisable \cup {"none"}, call \in ProbeCalls :
        LET leaves == IF Cur.phase = 1 THEN probe_expecting_denied(exc)
                      ELSE probe_expecting_allowed(exc)
            ip == keystone_ips[ipi]
        IN  /\ exc = "none" => call = "services.list"
            /\ log' = Append(log,
                   [Event(probe_outcome(exc)) EXCEPT
                       !.ip = ip, !.exc = exc, !.url = OS_AUTH_URL(ip),
                       !.call = IF leaves \in Raisable THEN call ELSE ""])
            /\ IF leaves = "none"
               THEN ipi' = ipi + 1 /\ UNCHANGED <<outcome, error>>
               ELSE outcome' = "failed" /\ error' = leaves /\ UNCHANGED ipi
    /\ UNCHANGED <<test, pc, zip_path>>
    /\ UNCHANGED <<fixed_vars, zip_vars, side_vars, hist_vars, target_vars>>

\* The for loop has gone through every address.
ProbesDone ==
    /\ Running
    /\ Cur.op = "for ip in keystone_ips"
    /\ ipi > Len(keystone_ips)
    /\ pc' = pc + 1
    /\ ipi' = 1
    /\ UNCHANGED <<test, outcome, error, zip_path, log>>
    /\ UNCHANGED <<fixed_vars, zip_vars, side_vars, hist_vars, target_vars>>

\* logging.info("OK"): the test method returns.
Finish ==
    /\ outcome = "running"
    /\ pc = Len(Program) + 1
    /\ outcome' = "passed"
    /\ UNCHANGED <<test, pc, error, ipi, zip_path, log>>
    /\ UNCHANGED <<fixed_vars, zip_vars, side_vars, hist_vars, target_vars>>

\* ------------------------------------------------ the target on its own
\* The deployed application changes its status line, its files and its
\* agents' activity asynchronously; the test only observes them.
TargetStatus ==
    /\ \E s \in StatusLines : s # status /\ status' = s
    /\ UNCHANGED <<orch_vars, fixed_vars, zip_vars, side_vars, hist_vars,
                   config, resource, tmp_files,
                   files, busy>>

TargetFile ==
    /\ \E u \in Units, f \in FileStates :
        /\ f # files[u]
        /\ files' = [files EXCEPT ![u] = f]
        /\ materialized' = (materialized \/ (Watching /\ f.exists))
    /\ UNCHANGED <<orch_vars, fixed_vars, zip_vars, side_vars, config,
                   resource, tmp_files,
                   status, busy>>

TargetAgent ==
    /\ \E u \in Units :
        busy' = IF u \in busy THEN busy \ {u} ELSE busy \cup {u}
    /\ UNCHANGED <<orch_vars, fixed_vars, zip_vars, side_vars, hist_vars,
                   config, resource, tmp_files,
                   status, files>>

\* No class run is in progress.
NoClass ==
    [klass |-> "", release |-> "", has_SkipTest |-> FALSE,
     has_service |-> FALSE, parent_setup_raises |-> FALSE,
     parent_teardown_raises |-> FALSE]

ClassNotRun ==
    /\ cls_in = NoClass
    /\ cls_pc = "done"
    /\ cls_tmp_dir = "unset"
    /\ cls_ran = <<>>
    /\ cls_error = "none"

\* The status predicates have not been polled on their own.
NoPoll == [line |-> <<>>, active |-> FALSE, broken |-> FALSE,
           not_active |-> FALSE, polled |-> FALSE]

NotPolled == polled = NoPoll

\* initialize_vault has not been called.
OvnNotRun ==
    /\ ovn_pc = "done"
    /\ ovn_config = [target_deploy_status |-> <<>>, present |-> FALSE]
    /\ ovn_log = <<>>
    /\ ovn_error = "none"

\* ------------------------------------------------------- specification
NoCall == [name |-> <<>>, items |-> <<>>]
NoResult == [path |-> <<>>, archive |-> <<>>]

Init ==
    /\ test \in Tests
    /\ pc = 1
    /\ outcome = "running"
    /\ error = "none"
    /\ ipi = 1
    /\ zip_path = <<>>
    /\ log = <<>>
    /\ nunits \in 1..MaxUnits
    /\ tls_rid \in (IF test = "test_disable_service" THEN BOOLEAN ELSE {FALSE})
    /\ config \in [ConfigKeys -> {"True", "False", default_api_version}]
    /\ config[override_key] \in {"True", "False"}
    /\ config[api_version_key] = default_api_version
    /\ resource = <<>>
    /\ tmp_files = [p \in {} |-> <<>>]
    /\ status \in StatusLines
    /\ files \in [Units -> FileStates]
    /\ busy \in SUBSET Units
    /\ zin = NoCall
    /\ zout = NoResult
    /\ materialized = FALSE
    /\ ClassNotRun
    /\ NotPolled
    /\ OvnNotRun

Next ==
    \/ MakeZipFile
    \/ AttachResource
    \/ SetApplicationConfig
    \/ BlockUntilAllUnitsIdle
    \/ BlockUntilWlStatusInfoStartsWith
    \/ BlockUntilFileHasContents
    \/ BlockUntilFileMissing
    \/ Probe
    \/ ProbesDone
    \/ Finish
    \/ TargetStatus
    \/ TargetFile
    \/ TargetAgent

Spec == Init /\ [][Next]_vars

\* The statements of the test method: everything but the target's own moves.
TestStep ==
    \/ MakeZipFile
    \/ AttachResource
    \/ SetApplicationConfig
    \/ BlockUntilAllUnitsIdle
    \/ BlockUntilWlStatusInfoStartsWith
    \/ BlockUntilFileHasContents
    \/ BlockUntilFileMissing
    \/ Probe
    \/ ProbesDone
    \/ Finish

\* The test method runs in one thread that is never starved: a statement
\* that can run does run, and an await that cannot succeed reaches its
\* timeout.  Nothing is assumed of the target.
\* The deployment as setUpClass finds it when settled: override off, units
\* idle and ready, no policy file.  Every other state of the target is
\* reached from it by the target's own moves.
InitSettled ==
    /\ Init
    /\ config[override_key] = "False"
    /\ status = unit_ready
    /\ files = [u \in Units |-> NotFound]
    /\ busy = {}

FairSpec == InitSettled /\ [][Next]_vars /\ WF_vars(TestStep)

\* ------------------------------------- the bundle builder on any bundle
\* Names the test methods give their archives.
ZipNames == {good_zip, bad_zip, rules_zip}

\* Entry names and contents of the bundles tried: the texts of the test
\* methods (one byte a character in UTF-8) and every text of at most MaxLen
\* characters that take two and three bytes.
EntryNames == {file1_yaml, file2_yaml, rule_yaml}
ZipChars == {"U+00E9", "U+20AC"}

Texts ==
    {good[1][2], bad[1][2], rules[1][2]}
        \cup UNION {[1..k -> ZipChars] : k \in 0..MaxLen}

\* The keys of a dict of at most MaxFiles entries, in insertion order:
\* non-empty, pairwise different.
KeyLists ==
    {ks \in UNION {[1..k -> EntryNames] : k \in 1..MaxFiles} :
        \A i, j \in 1..Len(ks) : ks[i] = ks[j] => i = j}

InitZip ==
    /\ \E name \in ZipNames, ks \in KeyLists :
        \E vs \in [1..Len(ks) -> Texts] :
            zin = [name |-> name,
                   items |-> [i \in 1..Len(ks) |-> <<ks[i], vs[i]>>]]
    /\ zout = NoResult
    /\ test = "test_001_policyd_good_yaml"
    /\ pc = 1
    /\ outcome = "running"
    /\ error = "none"
    /\ ipi = 1
    /\ zip_path = <<>>
    /\ log = <<>>
    /\ nunits = 1
    /\ tls_rid = FALSE
    /\ config = [k \in ConfigKeys |->
                    IF k = override_key THEN "False" ELSE default_api_version]
    /\ resource = <<>>
    /\ tmp_files = [p \in {} |-> <<>>]
    /\ status = unit_ready
    /\ files = [u \in Units |-> NotFound]
    /\ busy = {}
    /\ materialized = FALSE
    /\ ClassNotRun
    /\ NotPolled
    /\ OvnNotRun

\* self._make_zip_file_from(zin.name, zin.items)
ZipCall ==
    /\ zout = NoResult
    /\ zout' = _make_zip_file_from(zin.name, zin.items)
    /\ UNCHANGED <<zin, orch_vars, fixed_vars, target_vars, hist_vars,
                   side_vars>>

NextZip == ZipCall

SpecZip == InitZip /\ [][NextZip]_vars

\* ------------------------------------------------------- the class fixtures
\* One run of a test class by unittest: setUpClass (lines 78-87), the test
\* methods, tearDownClass (lines 89-97).  A test method is taken as a whole
\* here: it runs, issues its calls against the target, and passes or fails.

\* Releases in the order openstack_utils compares them, around xenial_queens.
Releases ==
    << "xenial_ocata", "xenial_pike", "xenial_queens", "bionic_queens",
       "bionic_rocky" >>

\* openstack_utils.get_os_release(pair): the position on the release list.
get_os_release(pair) ==
    CHOOSE i \in 1..Len(Releases) : Releases[i] = pair

\* Test methods of the two concrete classes, in the order unittest runs them.
TestMethods(klass) ==
    IF klass = "KeystonePolicydTest"
    THEN << "test_001_policyd_good_yaml", "test_002_policyd_bad_yaml",
            "test_disable_service" >>
    ELSE << "test_001_policyd_good_yaml", "test_002_policyd_bad_yaml" >>

\* The first call a test method issues against the target.
FirstMutation(t) ==
    LET prog == CASE t = "test_001_policyd_good_yaml" ->
                         test_001_policyd_good_yaml
                  [] t = "test_002_policyd_bad_yaml" ->
                         test_002_policyd_bad_yaml
                  [] OTHER -> test_disable_service
        i == CHOOSE i \in 1..Len(prog) :
                 /\ prog[i].op \in {"attach_resource", "set_application_config"}
                 /\ \A j \in 1..(i - 1) :
                     prog[j].op \notin
                         {"attach_resource", "set_application_config"}
    IN  prog[i].op

\* A class fixture raised: unittest records the error and leaves the class.
\* After a failed setUpClass it runs neither the test methods nor
\* tearDownClass.
fixture_raises(exc) ==
    /\ cls_error' = exc
    /\ cls_pc' = "done"

\* Line 81: super(PolicydTest, cls).setUpClass(application_name)
SetUpClassSuper ==
    /\ cls_pc = "81"
    /\ IF cls_in.parent_setup_raises
       THEN fixture_raises("Exception")
       ELSE cls_pc' = "82" /\ UNCHANGED cls_error
    /\ UNCHANGED <<cls_in, cls_tmp_dir, cls_ran, main_vars, poll_vars,
                   ovn_vars>>

\* Lines 82-84: below xenial_queens the expression cls.SkipTest("...") is
\* evaluated and its value dropped; there is no raise statement.  If the
\* class has no attribute SkipTest the lookup raises AttributeError; if it
\* has, an exception object is built and setUpClass goes on.
SetUpClassReleaseGate ==
    /\ cls_pc = "82"
    /\ IF get_os_release(cls_in.release) < get_os_release("xenial_queens")
          /\ ~cls_in.has_SkipTest
       THEN fixture_raises("AttributeError")
       ELSE cls_pc' = "85" /\ UNCHANGED cls_error
    /\ UNCHANGED <<cls_in, cls_tmp_dir, cls_ran, main_vars, poll_vars,
                   ovn_vars>>

\* Line 85: cls._tmp_dir = tempfile.mkdtemp()
SetUpClassMkdtemp ==
    /\ cls_pc = "85"
    /\ cls_tmp_dir' = "present"
    /\ cls_pc' = "86"
    /\ UNCHANGED <<cls_in, cls_ran, cls_error, main_vars, poll_vars, ovn_vars>>

\* Lines 86-87: cls.test_config['tests_options']['policyd']['service']
SetUpClassServiceName ==
    /\ cls_pc = "86"
    /\ IF cls_in.has_service
       THEN cls_pc' = "tests" /\ UNCHANGED cls_error
       ELSE fixture_raises("KeyError")
    /\ UNCHANGED <<cls_in, cls_tmp_dir, cls_ran, main_vars, poll_vars,
                   ovn_vars>>

\* unittest runs the next test method; it issues its calls and passes or
\* fails.  A failed test method does not stop the class.
RunTestMethod ==
    /\ cls_pc = "tests"
    /\ Len(cls_ran) < Len(TestMethods(cls_in.klass))
    /\ \E res \in {"passed", "failed"} :
        LET t == TestMethods(cls_in.klass)[Len(cls_ran) + 1] IN
        cls_ran' = Append(cls_ran,
                          [test |-> t, issued |-> FirstMutation(t),
                           res |-> res])
    /\ UNCHANGED <<cls_in, cls_pc, cls_tmp_dir, cls_error, main_vars,
                   poll_vars, ovn_vars>>

\* After the last test method unittest calls tearDownClass.
TestsDone ==
    /\ cls_pc = "tests"
    /\ Len(cls_ran) = Len(TestMethods(cls_in.klass))
    /\ cls_pc' = "92"
    /\ UNCHANGED <<cls_in, cls_tmp_dir, cls_ran, cls_error, main_vars,
                   poll_vars, ovn_vars>>

\* Line 92: super(PolicydTest, cls).tearDownClass(), outside the try block.
TearDownClassSuper ==
    /\ cls_pc = "92"
    /\ IF cls_in.parent_teardown_raises
       THEN fixture_raises("Exception")
       ELSE cls_pc' = "94" /\ UNCHANGED cls_error
    /\ UNCHANGED <<cls_in, cls_tmp_dir, cls_ran, main_vars, poll_vars,
                   ovn_vars>>

\* Lines 93-97: shutil.rmtree(cls._tmp_dir, ignore_errors=True)
TearDownClassRmtree ==
    /\ cls_pc = "94"
    /\ cls_tmp_dir' = "removed"
    /\ cls_pc' = "done"
    /\ UNCHANGED <<cls_in, cls_ran, cls_error, main_vars, poll_vars, ovn_vars>>

\* No test method of the main model is running.
NoTestRunning ==
    /\ test = "test_001_policyd_good_yaml"
    /\ pc = 1
    /\ outcome = "running"
    /\ error = "none"
    /\ ipi = 1
    /\ zip_path = <<>>
    /\ log = <<>>
    /\ nunits = 1
    /\ tls_rid = FALSE
    /\ config = [k \in ConfigKeys |->
                    IF k = override_key THEN "False" ELSE default_api_version]
    /\ resource = <<>>
    /\ tmp_files = [p \in {} |-> <<>>]
    /\ status = unit_ready
    /\ files = [u \in Units |-> NotFound]
    /\ busy = {}
    /\ zin = NoCall
    /\ zout = NoResult
    /\ materialized = FALSE

InitClass ==
    /\ cls_in \in [klass : {"GenericPolicydTest", "KeystonePolicydTest"},
                   release : {Releases[i] : i \in 1..Len(Releases)},
                   has_SkipTest : BOOLEAN,
                   has_service : BOOLEAN,
                   parent_setup_raises : BOOLEAN,
                   parent_teardown_raises : BOOLEAN]
    /\ cls_pc = "81"
    /\ cls_tmp_dir = "unset"
    /\ cls_ran = <<>>
    /\ cls_error = "none"
    /\ NoTestRunning
    /\ NotPolled
    /\ OvnNotRun

NextClass ==
    \/ SetUpClassSuper
    \/ SetUpClassReleaseGate
    \/ SetUpClassMkdtemp
    \/ SetUpClassServiceName
    \/ RunTestMethod
    \/ TestsDone
    \/ TearDownClassSuper
    \/ TearDownClassRmtree

SpecClass == InitClass /\ [][NextClass]_vars

\* ------------------------------------------------ the status poll alone
\* Status info lines to poll: every beginning of "PO:" and of
\* "PO (broken):" followed by at most MaxLen further characters, and the
\* lines of StatusLines.
StatusChars == {"P", "O", ":", " ", "(", "r"}

StatusTexts ==
    StatusLines
        \cup UNION { { SubSeq(p, 1, n) \o t :
                         n \in 0..Len(p),
                         t \in UNION {[1..k -> StatusChars] :
                                          k \in 0..MaxLen} } :
                     p \in {PO, PO_broken} }

\* The charm shows another status info line: one of StatusLines, or the
\* line it shows grown by a character.
StatusLineChanges ==
    /\ \/ \E s \in StatusLines : s # status /\ status' = s
       \/ \E c \in StatusChars \cup {PO_broken[i] : i \in 1..Len(PO_broken)} :
              /\ Append(status, c) \in StatusTexts
              /\ status' = Append(status, c)
    /\ polled' = NoPoll
    /\ UNCHANGED <<orch_vars, fixed_vars, zip_vars, hist_vars, config,
                   resource, tmp_files, files, busy, class_vars, ovn_vars>>

\* The three status awaits of the test methods poll the line: "PO:"
\* (line 152), "PO (broken):" (line 194) and not "PO:" (lines 127, 165, 168).
PollStatus ==
    /\ ~polled.polled
    /\ polled' =
           [line |-> status,
            active |-> wl_status_info_starts_with(PO, FALSE),
            broken |-> wl_status_info_starts_with(PO_broken, FALSE),
            not_active |-> wl_status_info_starts_with(PO, TRUE),
            polled |-> TRUE]
    /\ UNCHANGED <<main_vars, class_vars, ovn_vars>>

InitStatus ==
    /\ NoTestRunning
    /\ ClassNotRun
    /\ NotPolled
    /\ OvnNotRun

NextStatus == StatusLineChanges \/ PollStatus

SpecStatus == InitStatus /\ [][NextStatus]_vars

\* ------------------------------------------------------ ovn/setup.py
\* initialize_vault() of zaza/openstack/charm_tests/ovn/setup.py.

\* Applications the bundle's tests.yaml may list under target_deploy_status,
\* and the workload states it may expect of them.
OvnApps == {"ovn", "ovn-central", "vault"}
DeployStates == {"active", "blocked"}

\* What get_charm_config() may return: with or without the key
\* target_deploy_status, which maps some applications to the expected state.
CharmConfigs ==
    {[target_deploy_status |-> <<>>, present |-> FALSE]}
        \cup {[target_deploy_status |-> d, present |-> TRUE] :
                 d \in UNION {[apps -> DeployStates] : apps \in SUBSET OvnApps}}

\* The record of one call: how it ended, and test_config as it was before.
OvnEvent(call, res) ==
    [line |-> ovn_pc, call |-> call, res |-> res, config |-> ovn_config]

\* A call of initialize_vault raised: nothing catches it.
ovn_raises(call, exc) ==
    /\ ovn_log' = Append(ovn_log, OvnEvent(call, exc))
    /\ ovn_error' = exc
    /\ ovn_pc' = "done"

ovn_returns(call, next_line) ==
    /\ ovn_log' = Append(ovn_log, OvnEvent(call, "ok"))
    /\ ovn_pc' = next_line
    /\ UNCHANGED ovn_error

\* Line 23: vault_setup.auto_initialize(validation_application=None)
AutoInitialize ==
    /\ ovn_pc = "23"
    /\ \/ ovn_returns("vault_setup.auto_initialize", "27")
       \/ ovn_raises("vault_setup.auto_initialize", "Exception")
    /\ UNCHANGED <<ovn_config, main_vars, class_vars, poll_vars>>

\* Line 27: test_config = zaza.charm_lifecycle.utils.get_charm_config()
GetCharmConfig ==
    /\ ovn_pc = "27"
    /\ ovn_returns("get_charm_config", "28")
    /\ UNCHANGED <<ovn_config, main_vars, class_vars, poll_vars>>

\* The removal written as test_config['target_deploy_status'].pop('ovn', None).
DelOvn_pop_default ==
    /\ ovn_pc = "28"
    /\ IF ovn_config.present
       THEN /\ ovn_config' =
                   [ovn_config EXCEPT !.target_deploy_status =
                       [a \in DOMAIN @ \ {"ovn"} |-> @[a]]]
            /\ ovn_returns("del target_deploy_status['ovn']", "29")
       ELSE /\ ovn_raises("del target_deploy_status['ovn']", "KeyError")
            /\ UNCHANGED ovn_config
    /\ UNCHANGED <<main_vars, class_vars, poll_vars>>

\* Line 28: del test_config['target_deploy_status']['ovn']
DelOvn ==
    /\ ovn_pc = "28"
    /\ IF ovn_config.present
          /\ "ovn" \in DOMAIN ovn_config.target_deploy_status
       THEN /\ ovn_config' =
                   [ovn_config EXCEPT !.target_deploy_status =
                       [a \in DOMAIN @ \ {"ovn"} |-> @[a]]]
            /\ ovn_returns("del target_deploy_status['ovn']", "29")
       ELSE /\ ovn_raises("del target_deploy_status['ovn']", "KeyError")
            /\ UNCHANGED ovn_config
    /\ UNCHANGED <<main_vars, class_vars, poll_vars>>

\* Line 29: zaza.model.wait_for_agent_status()
WaitForAgentStatus ==
    /\ ovn_pc = "29"
    /\ \/ ovn_returns("wait_for_agent_status", "30")
       \/ ovn_raises("wait_for_agent_status", "Timeout")
    /\ UNCHANGED <<ovn_config, main_vars, class_vars, poll_vars>>

\* Line 30: zaza.model.wait_for_application_states()
WaitForApplicationStates ==
    /\ ovn_pc = "30"
    /\ \/ ovn_returns("wait_for_application_states", "done")
       \/ ovn_raises("wait_for_application_states", "Timeout")
    /\ UNCHANGED <<ovn_config, main_vars, class_vars, poll_vars>>

InitOvn ==
    /\ ovn_pc = "23"
    /\ ovn_config \in CharmConfigs
    /\ ovn_log = <<>>
    /\ ovn_error = "none"
    /\ NoTestRunning
    /\ ClassNotRun
    /\ NotPolled

NextOvn ==
    \/ AutoInitialize
    \/ GetCharmConfig
    \/ DelOvn
    \/ WaitForAgentStatus
    \/ WaitForApplicationStates

SpecOvn == InitOvn /\ [][NextOvn]_vars

\* ------------------------------------------------------ reading the log
T001 == "test_001_policyd_good_yaml"
T002 == "test_002_policyd_bad_yaml"
TDS == "test_disable_service"

LogIdx == 1..Len(log)

\* log[i] wrote use-policyd-override = v.
WritesOverride(i, v) ==
    /\ log[i].step.op = "set_application_config"
    /\ \E n \in 1..Len(log[i].step.cfg) : log[i].step.cfg[n] = <<override_key, v>>

Attached(i, zip_name) ==
    /\ log[i].step.op = "attach_resource"
    /\ log[i].target = _tmp_dir \o <<"/">> \o zip_name

\* log[i] is the status await for the prefix, negated or not.
StatusAwait(i, prefix, negate_match) ==
    /\ log[i].step.op = "block_until_wl_status_info_starts_with"
    /\ log[i].step.prefix = prefix
    /\ log[i].step.neg = negate_match

IdleAwait(i) == log[i].step.op = "block_until_all_units_idle"

ContentsAwait(i, entry, text) ==
    /\ log[i].step.op = "block_until_file_has_contents"
    /\ log[i].step.path =
           <<"/", "e", "t", "c", "/">> \o _service_name
               \o <<"/", "p", "o", "l", "i", "c", "y", ".", "d", "/">> \o entry
    /\ log[i].step.contents = text

MissingAwait(i, entry) ==
    /\ log[i].step.op = "block_until_file_missing"
    /\ log[i].step.path =
           <<"/", "e", "t", "c", "/">> \o _service_name
               \o <<"/", "p", "o", "l", "i", "c", "y", ".", "d", "/">> \o entry

Succeeded(i) == log[i].res = "ok"

ProbeEvent(i, phase) ==
    /\ log[i].step.op = "for ip in keystone_ips"
    /\ log[i].step.phase = phase

\* ------------------------------------------------------------------ C1
\* C1: in test_001_policyd_good_yaml the write use-policyd-override=False is
\* issued only after, in this order, the bundle was attached, the enabling
\* write use-policyd-override=True was issued, the await for
\* /etc/<service>/policy.d/file1.yaml containing "rule1: '!'" on every unit
\* returned, and the await for a status line starting with "PO:" returned;
\* and no await before it timed out.
C1_DisableOnlyAfterContentsThenPO ==
    test = T001 =>
        \A k \in LogIdx :
            WritesOverride(k, "False") =>
                /\ \A i \in 1..(k - 1) : log[i].res # "timeout"
                /\ \E a \in 1..(k - 1) :
                    /\ Attached(a, good_zip)
                    /\ \E e \in (a + 1)..(k - 1) :
                        /\ WritesOverride(e, "True")
                        /\ \E f \in (e + 1)..(k - 1) :
                            /\ ContentsAwait(f, file1_yaml, rule1_contents)
                            /\ Succeeded(f)
                            /\ \E p \in (f + 1)..(k - 1) :
                                /\ StatusAwait(p, PO, FALSE)
                                /\ Succeeded(p)

\* test_001 has issued the disabling write.
C1_Witness ==
    /\ test = T001
    /\ \E k \in LogIdx : WritesOverride(k, "False")

\* ------------------------------------------------------------------ C2
\* The calls test_001 makes after the disabling write, in order.
IsDisableCheck(i, n) ==
    CASE n = 1 -> StatusAwait(i, PO, TRUE)
      [] n = 2 -> IdleAwait(i)
      [] n = 3 -> StatusAwait(i, PO, TRUE)
      [] n = 4 -> MissingAwait(i, file1_yaml)
      [] OTHER -> FALSE

\* C2: in test_001_policyd_good_yaml the calls that follow the write
\* use-policyd-override=False are exactly, in this order, the await for a
\* status line not starting with "PO:", the await for all units idle, the
\* await for a status line not starting with "PO:" again and the await for
\* file1.yaml missing on every unit, each made only after the one before it
\* returned, with no attach or configuration write among them; and the test
\* passes only when all four have returned.
C2_DisableDoubleCheck ==
    test = T001 =>
        /\ \A k \in LogIdx :
            WritesOverride(k, "False") =>
                /\ Len(log) - k <= 4
                /\ \A n \in 1..(Len(log) - k) :
                    /\ IsDisableCheck(k + n, n)
                    /\ n < Len(log) - k => Succeeded(k + n)
        /\ outcome = "passed" =>
            \E k \in LogIdx :
                /\ WritesOverride(k, "False")
                /\ Len(log) = k + 4
                /\ \A n \in 1..4 : Succeeded(k + n)

\* test_001 has passed, the four awaits behind it.
C2_Witness ==
    /\ test = T001
    /\ outcome = "passed"
    /\ Len(log) = 11

\* ------------------------------------------------------------------ C3
\* C3: test_002_policyd_bad_yaml passes only if, in this order, bad.zip was
\* attached, use-policyd-override=True was written, the await for a status
\* line starting with "PO (broken):" returned and the await for
\* /etc/<service>/policy.d/file2.yaml missing on every unit returned.
C3_BadBundlePath ==
    (test = T002 /\ outcome = "passed") =>
        \E a \in LogIdx :
            /\ Attached(a, bad_zip)
            /\ \E e \in (a + 1)..Len(log) :
                /\ WritesOverride(e, "True")
                /\ \E b \in (e + 1)..Len(log) :
                    /\ StatusAwait(b, PO_broken, FALSE)
                    /\ Succeeded(b)
                    /\ \E m \in (b + 1)..Len(log) :
                        /\ MissingAwait(m, file2_yaml)
                        /\ Succeeded(m)

\* test_002 has passed.
C3_Witness ==
    /\ test = T002
    /\ outcome = "passed"
    /\ \E b \in LogIdx : StatusAwait(b, PO_broken, FALSE) /\ Succeeded(b)

\* ------------------------------------------------------------------ C4
\* C4: in test_disable_service every probe of the first loop is made with
\* use-policyd-override written True and every probe of the second loop
\* with it written False; a probe that is ALLOWED in the first loop or
\* DENIED in the second ends the test at once with PolicydError; and the
\* test passes only if, for every keystone address, the probe of the first
\* loop was DENIED and the later probe of the second loop was ALLOWED.
C4_CrossVerification ==
    test = TDS =>
        /\ \A i \in LogIdx :
            /\ ProbeEvent(i, 1) => log[i].override = "True"
            /\ ProbeEvent(i, 2) => log[i].override = "False"
            /\ (\/ ProbeEvent(i, 1) /\ log[i].res = "ALLOWED"
                \/ ProbeEvent(i, 2) /\ log[i].res = "DENIED") =>
                    /\ i = Len(log)
                    /\ outcome = "failed"
                    /\ error = "PolicydError"
        /\ outcome = "passed" =>
            \A n \in 1..Len(keystone_ips) :
                \E i \in LogIdx :
                    /\ ProbeEvent(i, 1)
                    /\ log[i].ip = keystone_ips[n]
                    /\ log[i].res = "DENIED"
                    /\ \E j \in (i + 1)..Len(log) :
                        /\ ProbeEvent(j, 2)
                        /\ log[j].ip = keystone_ips[n]
                        /\ log[j].res = "ALLOWED"

\* test_disable_service has passed on an application of several units.
C4_Witness ==
    /\ test = TDS
    /\ outcome = "passed"
    /\ nunits > 1

\* ------------------------------------------------------------------ C5
\* C5: in both loops of test_disable_service a probe counts as DENIED
\* exactly when a call raised Forbidden and as ALLOWED exactly when
\* services.list() returned; when a call raised anything else the probe is
\* the last call of the test, which has failed with that very exception.
C5_ProbeClassification ==
    \A i \in LogIdx :
        (ProbeEvent(i, 1) \/ ProbeEvent(i, 2)) =>
            /\ log[i].res = "DENIED" <=> log[i].exc = "Forbidden"
            /\ log[i].res = "ALLOWED" <=> log[i].exc = "none"
            /\ log[i].exc \notin {"none", "Forbidden"} =>
                /\ log[i].res = "ERROR"
                /\ i = Len(log)
                /\ outcome = "failed"
                /\ error = log[i].exc

\* A probe of the second loop ended with a failure other than Forbidden,
\* after the first loop went through with every probe DENIED.
C5_Witness ==
    /\ test = TDS
    /\ \E i \in LogIdx :
        /\ ProbeEvent(i, 2)
        /\ log[i].res = "ERROR"
        /\ log[i].call = "get_keystone_session"

\* ------------------------------------------------------------------ C6
\* C6: wherever an override with a valid bundle is enabled, the await for a
\* status line starting with "PO:" (not negated) has returned before the
\* test moves on: in test_001 before the disabling write, in
\* test_disable_service before any probe of the first loop.
C6_PO_AwaitedAfterEnable ==
    /\ test = T001 =>
        \A k \in LogIdx :
            WritesOverride(k, "False") =>
                \E e \in 1..(k - 1) :
                    /\ WritesOverride(e, "True")
                    /\ \E p \in (e + 1)..(k - 1) :
                        StatusAwait(p, PO, FALSE) /\ Succeeded(p)
    /\ test = TDS =>
        \A k \in LogIdx :
            ProbeEvent(k, 1) =>
                \E e \in 1..(k - 1) :
                    /\ WritesOverride(e, "True")
                    /\ \E p \in (e + 1)..(k - 1) :
                        StatusAwait(p, PO, FALSE) /\ Succeeded(p)

\* ------------------------------------------------------------------ C7
\* C7: in test_disable_service a probe of the second loop is made only
\* after, in this order, use-policyd-override=False was written, the await
\* for a status line not starting with "PO:" returned, the await for all
\* units idle returned, the await for a status line not starting with "PO:"
\* returned again, and the await for the override file missing on every
\* unit returned.
C7_RevertGateBeforeReprobe ==
    test = TDS =>
        \A k \in LogIdx :
            ProbeEvent(k, 2) =>
                \E d \in 1..(k - 1) :
                    /\ WritesOverride(d, "False")
                    /\ \E s1 \in (d + 1)..(k - 1) :
                        /\ StatusAwait(s1, PO, TRUE) /\ Succeeded(s1)
                        /\ \E q \in (s1 + 1)..(k - 1) :
                            /\ IdleAwait(q) /\ Succeeded(q)
                            /\ \E s2 \in (q + 1)..(k - 1) :
                                /\ StatusAwait(s2, PO, TRUE) /\ Succeeded(s2)
                                /\ \E m \in (s2 + 1)..(k - 1) :
                                    /\ MissingAwait(m, rule_yaml)
                                    /\ Succeeded(m)

\* ------------------------------------------------------------------ C8
\* Reading an archive back (ZipFile.namelist, ZipFile.read and
\* bytes.decode("utf-8")): its entry names, and the text of an entry.
Chr(n) == OrdTable[CHOOSE i \in 1..Len(OrdTable) : OrdTable[i][2] = n][1]

RECURSIVE utf8_decode(_)
utf8_decode(b) ==
    IF b = <<>> THEN <<>>
    ELSE IF b[1] < 128 THEN <<Chr(b[1])>> \o utf8_decode(SubSeq(b, 2, Len(b)))
    ELSE IF b[1] < 224
        THEN <<Chr((b[1] - 192) * 64 + (b[2] - 128))>>
                 \o utf8_decode(SubSeq(b, 3, Len(b)))
    ELSE <<Chr((b[1] - 224) * 4096 + (b[2] - 128) * 64 + (b[3] - 128))>>
             \o utf8_decode(SubSeq(b, 4, Len(b)))

namelist(archive) == {archive[i].filename : i \in 1..Len(archive)}

read_text(archive, name) ==
    utf8_decode(archive[CHOOSE i \in 1..Len(archive) :
                            archive[i].filename = name].data)

\* C8: for every non-empty dict B with unique names,
\* _make_zip_file_from(name, B) returns <tmp_dir>/<name> (the name it was
\* called with), and the archive it writes there has one entry per key of
\* B, the entry names being the keys of B and each entry reading back as
\* B[key] exactly.
C8_BundleRoundTrip ==
    zout # NoResult =>
        /\ zout.path = _tmp_dir \o <<"/">> \o zin.name
        /\ Len(zout.archive) = Len(zin.items)
        /\ namelist(zout.archive) = {zin.items[i][1] : i \in 1..Len(zin.items)}
        /\ \A i \in 1..Len(zin.items) :
            read_text(zout.archive, zin.items[i][1]) = zin.items[i][2]

\* The call has returned for a bundle of several entries, one of them with
\* characters of two and of three bytes.
C8_Witness ==
    /\ zout # NoResult
    /\ Len(zin.items) = MaxFiles
    /\ \E i \in 1..Len(zin.items) : zin.items[i][2] = <<"U+00E9", "U+20AC">>

\* ------------------------------------------------------------------ C9
\* C9: in every test method an await that timed out is the last call the
\* test makes (no attach, write, await or probe follows it) and the test
\* has failed with the timeout; and no statement is executed twice: two
\* calls from the same place are probes of different addresses.
C9_HardGateNoRetry ==
    /\ \A i \in LogIdx :
        log[i].res = "timeout" =>
            /\ i = Len(log)
            /\ outcome = "failed"
            /\ error = "Timeout"
    /\ \A i, j \in LogIdx :
        (i < j /\ log[i].at = log[j].at) =>
            /\ log[i].step.op = "for ip in keystone_ips"
            /\ log[i].ip # log[j].ip

\* An await has timed out after earlier awaits of the test returned.
C9_Witness ==
    /\ Len(log) > 4
    /\ log[Len(log)].res = "timeout"
    /\ outcome = "failed"

\* ----------------------------------------------------------------- C10
\* C10: for every fleet of one or more units, the predicate awaited by
\* block_until_file_has_contents (the file holds the expected text on every
\* unit) and the predicate awaited by block_until_file_missing (the file is
\* on no unit) do not hold in the same state.
C10_FilePredicatesExclusive ==
    ~(file_has_contents(rule1_contents) /\ file_missing)

\* test_001 has just seen the file with its contents on every unit of a
\* fleet of several units.
C10_Witness ==
    /\ test = T001
    /\ nunits > 1
    /\ Len(log) > 0
    /\ ContentsAwait(Len(log), file1_yaml, rule1_contents)
    /\ Succeeded(Len(log))
    /\ file_has_contents(rule1_contents)
    /\ ~file_missing

\* ------------------------------------------------------------------ C11
\* log[i] changed the target: a resource was attached or the configuration
\* was written.
Mutation(i) ==
    log[i].step.op \in {"attach_resource", "set_application_config"}

\* C11 (as claimed): in every test method each mutation of the target other
\* than the first is issued only after block_until_all_units_idle returned
\* since the mutation before it.
C11_MutationsGatedOnIdle ==
    \A j \in LogIdx : \A k \in LogIdx :
        (j < k /\ Mutation(j) /\ Mutation(k)) =>
            \E b \in (j + 1)..(k - 1) : IdleAwait(b) /\ Succeeded(b)

\* ------------------------------------------------------------------ C12
\* log[e] is the first write of use-policyd-override=True of the method.
EnablingWrite(e) ==
    /\ WritesOverride(e, "True")
    /\ \A i \in 1..(e - 1) : ~WritesOverride(i, "True")

\* C12 (as claimed): in test_001 and test_002 the call that follows the
\* enabling write is block_until_all_units_idle, and the awaits for the
\* outcome signals come after it.
C12_IdleAwaitedAfterEnable ==
    test \in {T001, T002} =>
        \A e \in LogIdx : \A i \in LogIdx :
            (EnablingWrite(e) /\ i = e + 1) => IdleAwait(i)

\* C12 (amended): in test_001 and test_002 block_until_all_units_idle has
\* returned between attach_resource and the enabling write, and the call
\* after the enabling write is the first outcome await: in test_001 the
\* file-contents await for file1.yaml, then the "PO:" status await; in
\* test_002 the "PO (broken):" status await, then block_until_all_units_idle,
\* then the file-missing await for file2.yaml.  Each of them is called only
\* after the one before it returned.
C12_EnableOrder ==
    test \in {T001, T002} =>
        \A e \in LogIdx :
            EnablingWrite(e) =>
                /\ e >= 3
                /\ log[e - 2].step.op = "attach_resource"
                /\ IdleAwait(e - 1) /\ Succeeded(e - 1)
                /\ test = T001 =>
                    /\ e + 1 \in LogIdx =>
                           ContentsAwait(e + 1, file1_yaml, rule1_contents)
                    /\ e + 2 \in LogIdx =>
                           /\ Succeeded(e + 1)
                           /\ StatusAwait(e + 2, PO, FALSE)
                /\ test = T002 =>
                    /\ e + 1 \in LogIdx => StatusAwait(e + 1, PO_broken, FALSE)
                    /\ e + 2 \in LogIdx =>
                           Succeeded(e + 1) /\ IdleAwait(e + 2)
                    /\ e + 3 \in LogIdx =>
                           Succeeded(e + 2) /\ MissingAwait(e + 3, file2_yaml)

\* Both orders have run to the end: the last outcome await of a generic test
\* method has returned.
C12_Witness ==
    /\ test \in {T001, T002}
    /\ \E e \in LogIdx :
        /\ EnablingWrite(e)
        /\ \/ test = T001 /\ e + 2 \in LogIdx /\ Succeeded(e + 2)
           \/ test = T002 /\ e + 3 \in LogIdx /\ Succeeded(e + 3)

\* ------------------------------------------------------------------ C13
\* C13 (as claimed): in every run of test_002_policyd_bad_yaml that completes
\* successfully, /etc/<service>/policy.d/file2.yaml was on no unit in any
\* state from the enabling configuration write until the test completed.
C13_NeverMaterialized ==
    (test = T002 /\ outcome = "passed") => ~materialized

\* C13 (amended): in every run of test_002_policyd_bad_yaml that completes
\* successfully, the file-missing await for file2.yaml was called once, after
\* the "PO (broken):" status await returned, and it returned; it returns only
\* in a state where the file is on no unit.
C13_AbsentWhenAwaitReturned ==
    [][ /\ (test = T002 /\ pc' = pc + 1
               /\ Cur.op = "block_until_file_missing") =>
               \A u \in Units : ~files[u].exists
        /\ (test = T002 /\ outcome' = "passed") =>
               \E m \in LogIdx :
                   /\ MissingAwait(m, file2_yaml) /\ Succeeded(m)
                   /\ \A i \in LogIdx \ {m} : ~MissingAwait(i, file2_yaml)
                   /\ \E b \in 1..(m - 1) :
                       StatusAwait(b, PO_broken, FALSE) /\ Succeeded(b)
      ]_vars

\* test_002 passed although the file was on a unit after the enabling write.
C13_Witness ==
    test = T002 /\ outcome = "passed" /\ materialized

\* ------------------------------------------------------------------ C14
\* C14: every test method eventually finishes, by returning or by raising,
\* whatever the target does, given that the thread running it is not starved
\* and every blocking await returns or times out.
C14_Termination == <>(outcome # "running")

\* A test method ended although the target never reached the awaited state:
\* its first await timed out.
C14_Witness ==
    /\ outcome = "failed"
    /\ error = "Timeout"
    /\ \A i \in LogIdx : log[i].res = "timeout" => i = Len(log)
    /\ \E i \in LogIdx : log[i].res = "timeout"

\* ------------------------------------------------------------------ C15
\* C15 (as claimed): whenever setUpClass has created the temporary directory,
\* the directory is removed when the class run has ended, on every path:
\* test methods passed or failed, the rest of setUpClass failed, or the
\* parent tearDownClass raised.
C15_ScratchReleased ==
    (cls_pc = "done" /\ cls_tmp_dir # "unset") => cls_tmp_dir = "removed"

\* ------------------------------------------------------------------ C16
\* The statement of test method t that builds its archive, and what it
\* builds.
BuildStep(t) ==
    LET prog == CASE t = T001 -> test_001_policyd_good_yaml
                  [] t = T002 -> test_002_policyd_bad_yaml
                  [] OTHER -> test_disable_service
    IN  prog[CHOOSE i \in 1..Len(prog) : prog[i].op = "_make_zip_file_from"]

\* Where the claim places the archive of test method t.
ArtifactPath(t) == _tmp_dir \o <<"/">> \o BuildStep(t).name

BuildEvents == {i \in LogIdx : log[i].step.op = "_make_zip_file_from"}

\* C16: the archives of the three test methods have pairwise distinct paths
\* in the shared scratch directory; a test method writes no path but its
\* own, builds its archive exactly once before it attaches it, and attaches
\* the path it built itself.
C16_UniqueArtifact ==
    /\ \A t1 \in Tests : \A t2 \in Tests :
           t1 # t2 => ArtifactPath(t1) # ArtifactPath(t2)
    /\ DOMAIN tmp_files \subseteq {ArtifactPath(test)}
    /\ Cardinality(BuildEvents) <= 1
    /\ \A m \in BuildEvents :
           /\ log[m].target = ArtifactPath(test)
           /\ log[m].target \in DOMAIN tmp_files
    /\ \A k \in LogIdx :
           log[k].step.op = "attach_resource" =>
               /\ \E m \in 1..(k - 1) : BuildEvents = {m}
               /\ log[k].target = ArtifactPath(test)
               /\ resource = ArtifactPath(test)

\* test_002 has attached the archive it built.
C16_Witness ==
    /\ test = T002
    /\ \E k \in LogIdx : log[k].step.op = "attach_resource"
    /\ resource \in DOMAIN tmp_files
    /\ outcome = "passed"

\* ------------------------------------------------------------------ C17
\* The first characters of s are those of p, one by one.
BeginsWith(s, p) ==
    /\ Len(s) >= Len(p)
    /\ \A i \in 1..Len(p) : s[i] = p[i]

\* C17: no status info line starts both with "PO:" and with "PO (broken):";
\* and the await for a line that does not start with "PO:" is satisfied by
\* every line that starts with "PO (broken):" as well as by every line that
\* reports no override (one that does not start with "PO").
C17_StatusPredicatesDisjoint ==
    polled.polled =>
        /\ ~(polled.active /\ polled.broken)
        /\ BeginsWith(polled.line, PO_broken) =>
               polled.broken /\ polled.not_active
        /\ ~BeginsWith(polled.line, <<"P", "O">>) =>
               ~polled.active /\ ~polled.broken /\ polled.not_active

\* A line reporting a broken override was polled and satisfied the await for
\* not "PO:".
C17_Witness ==
    /\ polled.polled
    /\ polled.broken
    /\ polled.not_active
    /\ Len(polled.line) > Len(PO_broken)

\* ------------------------------------------------------------------ C18
ConfigWrites == {i \in LogIdx : log[i].step.op = "set_application_config"}

C19_ReleaseGate ==
    get_os_release(cls_in.release) < get_os_release("xenial_queens") =>
        \A i \in 1..Len(cls_ran) :
            cls_ran[i].issued \notin
                {"attach_resource", "set_application_config"}

\* ------------------------------------------------------------------ C20
\* The calls of initialize_vault in the order of the source.
OvnOrder ==
    << "vault_setup.auto_initialize", "get_charm_config",
       "del target_deploy_status['ovn']", "wait_for_agent_status",
       "wait_for_application_states" >>

\* C20: initialize_vault makes its calls strictly in the order vault
\* auto-initialisation, removal of the 'ovn' entry of target_deploy_status,
\* wait_for_agent_status, wait_for_application_states, each only after the
\* one before it returned; a removal that returned has removed 'ovn' and
\* nothing else; without an 'ovn' entry the removal raises KeyError and
\* neither wait is started.
C20_OvnSetupOrder ==
    /\ Len(ovn_log) <= Len(OvnOrder)
    /\ \A i \in 1..Len(ovn_log) :
           /\ ovn_log[i].call = OvnOrder[i]
           /\ i < Len(ovn_log) => ovn_log[i].res = "ok"
    /\ \A i \in 1..Len(ovn_log) :
           ovn_log[i].call = "del target_deploy_status['ovn']" =>
               LET before == ovn_log[i].config IN
               IF before.present /\ "ovn" \in DOMAIN before.target_deploy_status
               THEN /\ ovn_log[i].res = "ok"
                    /\ DOMAIN ovn_config.target_deploy_status =
                           DOMAIN before.target_deploy_status \ {"ovn"}
                    /\ \A a \in DOMAIN ovn_config.target_deploy_status :
                           ovn_config.target_deploy_status[a] =
                               before.target_deploy_status[a]
               ELSE /\ ovn_log[i].res = "KeyError"
                    /\ ovn_error = "KeyError"
                    /\ ovn_pc = "done"
                    /\ i = Len(ovn_log)
                    /\ ovn_config = before

\* initialize_vault returned after both waits.
C20_Witness ==
    /\ ovn_pc = "done"
    /\ ovn_error = "none"
    /\ Len(ovn_log) = Len(OvnOrder)

====
